---- MODULE Spec2Model ----
(***************************************************************************)
(* The cinema trip planner of ap2-cinebus-2023: the bus graph built from   *)
(* the AMB feed (buses.py), the city graph composed from the street graph  *)
(* and the bus graph (city.py, city2.py), the search for a path between    *)
(* two coordinates (city.find_path), the timing of that path               *)
(* (city.plot_path) and the session that drives them (demo.main).          *)
(*                                                                         *)
(* Numbers.  Coordinates are integer grid positions next to Barcelona's    *)
(* latitude and longitude.  A distance is a whole number of metres: one    *)
(* grid step of latitude is 200 m, one grid step of longitude is           *)
(* 200 m * cos(latitude), which is 150 m at 41 degrees and 200 m at 2      *)
(* degrees.  calculate_travel_time takes the distance in metres where the  *)
(* code takes kilometres and returns seconds where the code returns        *)
(* minutes, so that every value stays an integer; format_minutes turns the *)
(* seconds into whole minutes as int() does.                               *)
(***************************************************************************)
EXTENDS Integers, Sequences, FiniteSets, TLC

\* Bounds of the model.
NStops == 5
MaxLineLen == 4
NInts == 2
MaxDistance == 12
MaxSpeed == 20

\* Barcelona: a stop of the feed has 'y': 41.417631, 'x': 2.206185.
BaseLat == 41
BaseLon == 2

Abs(n) == IF n < 0 THEN -n ELSE n

Min(S) == CHOOSE m \in S : \A n \in S : m <= n

Last(s) == s[Len(s)]

\* Metres in one grid step of longitude at latitude lat (200 * cos(lat)).
LonMetres(lat) == IF lat >= 30 THEN 150 ELSE 200

\* Great-circle distance in metres between (lat1, lon1) and (lat2, lon2).
GreatCircle(lat1, lon1, lat2, lon2) ==
    200 * Abs(lat1 - lat2) + LonMetres(lat1) * Abs(lon1 - lon2)

\* geopy.distance.geodesic(coord1, coord2).meters: a coordinate is (latitude, longitude).
geodesic(coord1, coord2) == GreatCircle(coord1[1], coord1[2], coord2[1], coord2[2])

\* haversine.haversine(point1, point2): a point is (latitude, longitude).
haversine(point1, point2) == GreatCircle(point1[1], point1[2], point2[1], point2[2])

-----------------------------------------------------------------------------
(* The AMB feed: ObtenirDadesAMBResult.Linies.Linia *)

StopIds == 1..NStops

\* The stops lie in rows of NStops - 1: stops 1..NStops-1 on one parallel,
\* the next ones on the parallel north of it.
Parada(cod) ==
    [CodAMB |-> cod, Adreca |-> cod, Municipi |-> "Barcelona",
     UTM_X |-> BaseLat + ((cod - 1) \div (NStops - 1)),
     UTM_Y |-> BaseLon + ((cod - 1) % (NStops - 1))]

\* The runs of stops a line can serve: up to MaxLineLen stops that follow
\* each other around the ring of stop identifiers.
StopRuns ==
    {<<>>} \cup
    { [i \in 1..len |-> Parada(((start + i - 2) % NStops) + 1)] :
        start \in StopIds, len \in 1..MaxLineLen }

\* The lines of the feed, in the order of the feed.
LineNoms == <<"L1", "L2">>

Feeds ==
    { [k \in DOMAIN LineNoms |->
          [Nom |-> LineNoms[k], MitjaTransport |-> "Bus", Parades |-> runs[k]]] :
        runs \in [DOMAIN LineNoms -> StopRuns] }

-----------------------------------------------------------------------------
(* buses.py *)

EmptyGraph == [nodes |-> <<>>, order |-> <<>>, edges |-> <<>>]

\* graph.add_node(n, **attrs): a new node is appended to the node order; the
\* attributes of a node that exists are updated.
add_node(graph, n, attrs) ==
    [graph EXCEPT
        !.nodes = [m \in DOMAIN graph.nodes \cup {n} |->
                      IF m = n THEN attrs ELSE graph.nodes[m]],
        !.order = IF n \in DOMAIN graph.nodes THEN @ ELSE Append(@, n)]

\* graph.add_edge(u, v, **attrs) of an undirected nx.Graph.
add_edge(graph, u, v, attrs) ==
    [graph EXCEPT
        !.edges = [e \in DOMAIN graph.edges \cup {{u, v}} |->
                      IF e = {u, v} THEN attrs ELSE graph.edges[e]]]

RECURSIVE AddStops(_, _, _, _)
AddStops(graph, nom, stops, i) ==
    IF i > Len(stops) THEN graph
    ELSE AddStops(add_node(graph, stops[i].CodAMB,
                           [name |-> stops[i].Adreca, line |-> nom,
                            y |-> stops[i].UTM_X, x |-> stops[i].UTM_Y]),
                  nom, stops, i + 1)

RECURSIVE AddHops(_, _, _)
AddHops(graph, stops, i) ==
    IF i > Len(stops) - 1 THEN graph
    ELSE AddHops(add_edge(graph, stops[i].CodAMB, stops[i + 1].CodAMB,
                          [distance |-> geodesic(<<stops[i].UTM_X, stops[i].UTM_Y>>,
                                                 <<stops[i + 1].UTM_X, stops[i + 1].UTM_Y>>)]),
                 stops, i + 1)

RECURSIVE AddLines(_, _, _)
AddLines(graph, linies, k) ==
    IF k > Len(linies) THEN graph
    ELSE IF linies[k].MitjaTransport = "Bus"
         THEN LET stops == SelectSeq(linies[k].Parades,
                                     LAMBDA stop : stop.Municipi = "Barcelona")
              IN AddLines(AddHops(AddStops(graph, linies[k].Nom, stops, 1), stops, 1),
                          linies, k + 1)
         ELSE AddLines(graph, linies, k + 1)

get_buses_graph(linies) == AddLines(EmptyGraph, linies, 1)

-----------------------------------------------------------------------------
(* The street graph: osmnx's walk network of Barcelona, an nx.MultiDiGraph *)

IntIds == (NStops + 1)..(NStops + NInts)

\* osmnx keeps the largest connected component of the walk network and walk
\* streets run both ways: the intersections form one chain of streets.
StreetEdges ==
    { <<u, v, 0>> : u, v \in IntIds } \ { k \in { <<u, v, 0>> : u, v \in IntIds } :
                                            Abs(k[1] - k[2]) # 1 }

IntY(n) == BaseLat + ((n - NStops - 1) % 2)

IntX(n) == BaseLon + 2 * (n - NStops - 1)

get_osmnx_graph ==
    [nodes |-> [n \in IntIds |-> [y |-> IntY(n), x |-> IntX(n), street_count |-> 2]],
     order |-> [i \in 1..NInts |-> NStops + i],
     edges |-> [k \in StreetEdges |->
                  [length |-> geodesic(<<IntY(k[1]), IntX(k[1])>>,
                                       <<IntY(k[2]), IntX(k[2])>>)]]]

-----------------------------------------------------------------------------
(* networkx and osmnx *)

\* dict.update: the keys of both, the values of the second where it has the key.
Update(d1, d2) ==
    [k \in DOMAIN d1 \cup DOMAIN d2 |-> IF k \in DOMAIN d2 THEN d2[k] ELSE d1[k]]

Position(order, n) == CHOOSE i \in 1..Len(order) : order[i] = n

\* The edges H.edges(keys=True, data=True) reports for the undirected graph H:
\* every edge once, from the endpoint that comes first in H's node order.
EdgesOnce(H) ==
    LET first(e) == CHOOSE u \in e : \A w \in e : Position(H.order, u) <= Position(H.order, w)
        second(e) == IF Cardinality(e) = 1 THEN first(e) ELSE CHOOSE w \in e : w # first(e)
    IN { <<first(e), second(e), 0>> : e \in DOMAIN H.edges }

\* to_undirected() and nx.MultiGraph(): the same nodes and edges, every edge with key 0.
to_multigraph(H) ==
    [nodes |-> H.nodes, order |-> H.order,
     edges |-> [k \in EdgesOnce(H) |-> H.edges[{k[1], k[2]}]]]

\* nx.compose(G, H): the nodes of G followed by the new nodes of H, the
\* attributes of H updating those of G on a node or an edge both have
\* (a networkx that composes a directed with an undirected multigraph).
compose(G, H) ==
    [nodes |-> [n \in DOMAIN G.nodes \cup DOMAIN H.nodes |->
                  IF n \in DOMAIN G.nodes /\ n \in DOMAIN H.nodes
                  THEN Update(G.nodes[n], H.nodes[n])
                  ELSE IF n \in DOMAIN G.nodes THEN G.nodes[n] ELSE H.nodes[n]],
     order |-> G.order \o SelectSeq(H.order, LAMBDA n : n \notin DOMAIN G.nodes),
     edges |-> [k \in DOMAIN G.edges \cup DOMAIN H.edges |->
                  IF k \in DOMAIN G.edges /\ k \in DOMAIN H.edges
                  THEN Update(G.edges[k], H.edges[k])
                  ELSE IF k \in DOMAIN G.edges THEN G.edges[k] ELSE H.edges[k]]]

\* osmnx.distance.nearest_nodes(G, X, Y) on an unprojected graph: the nodes at
\* the least great-circle distance from (Y, X); which of several it returns
\* is the search tree's choice.
nearest_nodes(G, X, Y) ==
    { n \in DOMAIN G.nodes :
        \A m \in DOMAIN G.nodes :
            GreatCircle(Y, X, G.nodes[n].y, G.nodes[n].x)
                <= GreatCircle(Y, X, G.nodes[m].y, G.nodes[m].x) }

\* Mutant: nearest_nodes never raises.
nearest_nodes_raises_Never(G) == FALSE

\* nearest_nodes(G, X, Y) raises ValueError('graph contains no nodes') when
\* G has no nodes.
nearest_nodes_raises(G) == DOMAIN G.nodes = {}

\* for node in g.nodes: g.nodes[node]['type'] = kind
TagNodes(G, kind) ==
    [G EXCEPT !.nodes = [n \in DOMAIN G.nodes |-> Update(G.nodes[n], [type |-> kind])]]

-----------------------------------------------------------------------------
(* city.py: graph composition *)

build_city_graph(g1, g2) ==
    compose(TagNodes(g1, "intersection"), to_multigraph(TagNodes(g2, "stop")))

\* The graph the caller passed as g1, once build_city_graph has returned:
\* g1.nodes[node]['type'] = 'intersection' writes into the caller's graph.
build_city_graph_g1(g1) == TagNodes(g1, "intersection")

\* The graph the caller passed as g2, once build_city_graph has returned:
\* g2.nodes[node]['type'] = 'stop' writes into the caller's graph.
build_city_graph_g2(g2) == TagNodes(g2, "stop")

-----------------------------------------------------------------------------
(* city2.py: graph composition with the edges from a stop to the street *)

\* if i % 500 == 0:
TransferEvery == 500

\* MultiDiGraph.add_edge(u, v, **attrs) without a key: the first unused key.
add_multi_edge(G, u, v, attrs) ==
    LET key == Min({ k \in 0..Cardinality(DOMAIN G.edges) : <<u, v, k>> \notin DOMAIN G.edges })
    IN [G EXCEPT !.edges = [e \in DOMAIN G.edges \cup {<<u, v, key>>} |->
                               IF e = <<u, v, key>> THEN attrs ELSE G.edges[e]]]

\* distance = haversine((data['y'], data['x']), (g1.nodes[...]['x'], g1.nodes[...]['y']))
transfer_distance(g1, data, nearest_intersection) ==
    haversine(<<data.y, data.x>>,
              <<g1.nodes[nearest_intersection].x, g1.nodes[nearest_intersection].y>>)

RECURSIVE ConnectStops(_, _, _, _)
ConnectStops(city_graph, g1, g2, i) ==
    IF i > Len(g2.order) THEN city_graph
    ELSE IF i % TransferEvery = 0
         THEN LET stop == g2.order[i]
                  data == g2.nodes[stop]
                  nearest_intersection == CHOOSE n \in nearest_nodes(g1, data.x, data.y) : TRUE
                  distance == transfer_distance(g1, data, nearest_intersection)
                  attrs == [info |-> <<data.name, distance, data.line>>, length |-> distance]
              IN ConnectStops(add_multi_edge(add_multi_edge(city_graph, stop,
                                                            nearest_intersection, attrs),
                                             nearest_intersection, stop, attrs),
                              g1, g2, i + 1)
         ELSE ConnectStops(city_graph, g1, g2, i + 1)

build_city_graph2(g1, g2) ==
    ConnectStops(compose(TagNodes(g1, "intersection"), to_multigraph(TagNodes(g2, "stop"))),
                 TagNodes(g1, "intersection"), TagNodes(g2, "stop"), 1)

-----------------------------------------------------------------------------
(* networkx: shortest_path(G, source, target, weight) on an undirected graph *)

\* The weight of an edge is data.get(weight, 1).
EdgeWeight(data, weight) == IF weight \in DOMAIN data THEN data[weight] ELSE 1

Neighbours(G, v) == { u \in DOMAIN G.nodes : {u, v} \in DOMAIN G.edges }

\* One round of relaxation; -1 stands for a node no path has reached yet.
RelaxOnce(G, weight, dist) ==
    [v \in DOMAIN G.nodes |->
        LET found == (IF dist[v] >= 0 THEN {dist[v]} ELSE {}) \cup
                     { dist[u] + EdgeWeight(G.edges[{u, v}], weight) :
                         u \in { w \in Neighbours(G, v) : dist[w] >= 0 } }
        IN IF found = {} THEN -1 ELSE Min(found)]

RECURSIVE Relax(_, _, _, _)
Relax(G, weight, dist, rounds) ==
    IF rounds = 0 THEN dist ELSE Relax(G, weight, RelaxOnce(G, weight, dist), rounds - 1)

\* Mutant: the relaxation stops after one round.
Distances_OneRound(G, source, weight) ==
    Relax(G, weight, [v \in DOMAIN G.nodes |-> IF v = source THEN 0 ELSE -1], 1)

\* The least total weight from source to every node.
Distances(G, source, weight) ==
    Relax(G, weight, [v \in DOMAIN G.nodes |-> IF v = source THEN 0 ELSE -1],
          Cardinality(DOMAIN G.nodes))

RECURSIVE LightestPaths(_, _, _, _, _)
LightestPaths(G, weight, dist, source, v) ==
    IF v = source THEN {<<source>>}
    ELSE UNION { { Append(p, v) : p \in LightestPaths(G, weight, dist, source, u) } :
                   u \in { w \in Neighbours(G, v) \ {v} :
                             /\ dist[w] >= 0
                             /\ dist[w] + EdgeWeight(G.edges[{w, v}], weight) = dist[v] } }

\* The node lists shortest_path can return: the paths of least total weight
\* (which of several, the search order decides); none when it raises
\* NetworkXNoPath.
shortest_path(G, source, target, weight) ==
    LET dist == Distances(G, source, weight)
    IN IF dist[target] < 0 THEN {} ELSE LightestPaths(G, weight, dist, source, target)

-----------------------------------------------------------------------------
(* city.py: the path between two coordinates *)

\* class Path: an 'intersection' keeps x and y, any other type keeps the node.
Path(x, y, node, type) ==
    IF type = "intersection" THEN [type |-> type, x |-> x, y |-> y]
    ELSE [type |-> type, node |-> node]

\* The weight find_path hands to shortest_path.
PathWeight == "length"

\* Mutant: a path of a single node is taken for no path.
find_path_NoSingle(buses_graph, src, dst, src_nearest, dst_nearest) ==
    LET found == shortest_path(buses_graph, src_nearest, dst_nearest, PathWeight)
        wrap(shortest_path_nodes) ==
            <<Path(src[2], src[1], 0, "intersection")>>
            \o [i \in 1..Len(shortest_path_nodes) |-> Path(0, 0, shortest_path_nodes[i], "stop")]
            \o <<Path(dst[2], dst[1], 0, "intersection")>>
    IN IF found = {} \/ src_nearest = dst_nearest THEN {<<>>}
       ELSE { wrap(nodes) : nodes \in found }

\* find_path(g, src, dst) once the nearest stops are known: the lists it can return.
find_path(buses_graph, src, dst, src_nearest, dst_nearest) ==
    LET found == shortest_path(buses_graph, src_nearest, dst_nearest, PathWeight)
        wrap(shortest_path_nodes) ==
            <<Path(src[2], src[1], 0, "intersection")>>
            \o [i \in 1..Len(shortest_path_nodes) |-> Path(0, 0, shortest_path_nodes[i], "stop")]
            \o <<Path(dst[2], dst[1], 0, "intersection")>>
    IN IF found = {} THEN {<<>>} ELSE { wrap(nodes) : nodes \in found }

-----------------------------------------------------------------------------
(* city.py: the travel time of a path *)

bus_speed == 20

walking_speed == 5

\* Mutant: the distance is multiplied by the speed.
calculate_travel_time_Product(distance, speed) == (distance * speed * 36) \div 10

\* distance in metres (the code: km), the result in seconds (the code: minutes).
calculate_travel_time(distance, speed) == (distance * 36) \div (speed * 10)

\* format_minutes: int(minutes) split in hours and minutes, 'hh:mm'.
format_minutes(seconds) == <<(seconds \div 60) \div 60, (seconds \div 60) % 60>>

OfType(p, type) == SelectSeq(p, LAMBDA path : path.type = type)

\* One pass of the loop over the consecutive stops of the path.
Hop(g, current_bus_node, next_bus_node) ==
    LET current_line == g.nodes[current_bus_node].line
        next_line == g.nodes[next_bus_node].line
        coord1 == <<g.nodes[current_bus_node].x, g.nodes[current_bus_node].y>>
        coord2 == <<g.nodes[next_bus_node].x, g.nodes[next_bus_node].y>>
        distance_in_km == haversine(coord1, coord2)
    IN IF current_line # next_line
       THEN [from |-> current_bus_node, to |-> next_bus_node, color |-> "blue",
             distance |-> distance_in_km,
             time |-> calculate_travel_time(distance_in_km, walking_speed)]
       ELSE [from |-> current_bus_node, to |-> next_bus_node, color |-> "red",
             distance |-> distance_in_km,
             time |-> calculate_travel_time(distance_in_km, bus_speed)]

\* Mutant: for i in range(len(stop_paths) - 2)
HopRange_Short(stop_paths) == 1..(Len(stop_paths) - 2)

\* for i in range(len(stop_paths) - 1)
HopRange(stop_paths) == 1..(Len(stop_paths) - 1)

Hops(g, stop_paths) ==
    [i \in HopRange(stop_paths) |-> Hop(g, stop_paths[i].node, stop_paths[i + 1].node)]

RECURSIVE TotalTime(_, _)
TotalTime(hops, i) ==
    IF i > Len(hops) THEN 0 ELSE hops[i].time + TotalTime(hops, i + 1)

\* Mutant: the line from the last stop to the end point is not drawn.
Lines_NoLast(p, hs) ==
    LET stop_paths == OfType(p, "stop")
        intersection_paths == OfType(p, "intersection")
    IN <<[from |-> intersection_paths[1], to |-> stop_paths[1], color |-> "blue"]>>
       \o [i \in 1..Len(hs) |->
             [from |-> Path(0, 0, hs[i].from, "stop"), to |-> Path(0, 0, hs[i].to, "stop"),
              color |-> hs[i].color]]

\* The lines plot_path draws, in order: the walk from the start point to the
\* first stop, the hops, the walk from the last stop to the end point (each
\* along the streets between its two ends).
Lines(p, hs) ==
    LET stop_paths == OfType(p, "stop")
        intersection_paths == OfType(p, "intersection")
    IN <<[from |-> intersection_paths[1], to |-> stop_paths[1], color |-> "blue"]>>
       \o [i \in 1..Len(hs) |->
             [from |-> Path(0, 0, hs[i].from, "stop"), to |-> Path(0, 0, hs[i].to, "stop"),
              color |-> hs[i].color]]
       \o <<[from |-> Last(stop_paths), to |-> Last(intersection_paths), color |-> "blue"]>>

\* Mutant: plot_path marks the nodes of g.
plotted_graph_Marked(g) == TagNodes(g, "plotted")

\* The graph g once plot_path has returned: plot_path reads g.nodes[...] and
\* writes nothing into g.
plotted_graph(g) == g

\* The nodes of the city graph plot_path reads: every stop of the path.
Plottable(g, p) ==
    \A i \in 1..Len(p) :
        p[i].type = "stop" =>
            /\ p[i].node \in DOMAIN g.nodes
            /\ {"x", "y", "line"} \subseteq DOMAIN g.nodes[p[i].node]

-----------------------------------------------------------------------------
(* demo.py *)

\* The lines main prints while it walks the path: a line and its street
\* each time the line of a stop differs from the line printed last.
RECURSIVE PrintLines(_, _, _, _)
PrintLines(g, p, i, current_line) ==
    IF i > Len(p) THEN <<>>
    ELSE IF p[i].type # "intersection"
              /\ "name" \in DOMAIN g.nodes[p[i].node]
              /\ "line" \in DOMAIN g.nodes[p[i].node]
              /\ g.nodes[p[i].node].line # current_line
         THEN <<[line |-> g.nodes[p[i].node].line, name |-> g.nodes[p[i].node].name,
                 node |-> p[i].node]>>
              \o PrintLines(g, p, i + 1, g.nodes[p[i].node].line)
         ELSE PrintLines(g, p, i + 1, current_line)

\* Where the user and the cinemas can be: next to the first stop, next to the
\* last stop of the first row, and one step north-east of the first stop.
Places ==
    { <<BaseLat, BaseLon>>, <<BaseLat, BaseLon + NStops - 2>>, <<BaseLat + 1, BaseLon + 1>> }

\* get_lat_long: the pair ox.geocode found, (None, None) when it raised.
NoneNone == [kind |-> "None, None"]

Located(latitude, longitude) == [kind |-> "tuple", latitude |-> latitude, longitude |-> longitude]

get_lat_long(result) ==
    IF result = <<>> THEN NoneNone ELSE Located(result[1], result[2])

-----------------------------------------------------------------------------
(* The session *)

VARIABLES
    feed,             \* the lines the AMB feed returns
    cityFile,         \* city_graph.grf: <<>> while it does not exist
    pc,               \* where main is
    city_graph,       \* main's city_graph
    start_location,   \* main's start_location
    cinema_location,  \* main's cinema_location
    nearest,          \* find_path's src_nearest and dst_nearest
    path,             \* main's path
    printed,          \* the lines main has printed for the path
    hops,             \* the hops plot_path has timed
    lines,            \* the lines plot_path has drawn
    total_time,       \* plot_path's total_time
    travel_time,      \* main's travel_time: <<>> for None
    error,            \* the exception that ended main, "" for none
    osmnx_graph,      \* get_city_graph's osmnx_graph once build_city_graph has returned
    buses_graph,      \* get_city_graph's buses_graph once build_city_graph has returned
    fetched,          \* how often the street graph and the bus graph have been obtained
    distance_in_km,   \* calculate_travel_time's argument (in metres)
    speed_in_km_h,    \* calculate_travel_time's argument
    time_in_minutes,  \* calculate_travel_time's result (in seconds)
    current_time,     \* main's current_time, in minutes since midnight
    projection_time,  \* main's projection_time, in minutes since midnight
    arrival_time,     \* main's arrival_time, in minutes since midnight
    message           \* what main prints about the arrival, "" before

\* The variables of a call of calculate_travel_time on its own.
timing == <<distance_in_km, speed_in_km_h, time_in_minutes>>

\* The variables of the arrival check at the end of main.
clock == <<current_time, projection_time, arrival_time, message>>

vars == <<feed, cityFile, pc, city_graph, start_location, cinema_location, nearest,
          path, printed, hops, lines, total_time, travel_time, error,
          osmnx_graph, buses_graph, fetched, distance_in_km, speed_in_km_h, time_in_minutes,
          current_time, projection_time, arrival_time, message>>

\* Nothing has been said about the arrival yet.
NoArrival ==
    /\ current_time = 0
    /\ projection_time = 0
    /\ arrival_time = 0
    /\ message = ""

\* Nothing has been obtained yet: the street graph, the bus graph, and how
\* many of these were obtained by find_path and plot_path.
NothingFetched == [street |-> 0, buses |-> 0, planning |-> 0]

Init ==
    /\ feed \in Feeds
    /\ cityFile = <<>>
    /\ pc = "start"
    /\ city_graph = <<>>
    /\ start_location = <<>>
    /\ cinema_location = <<>>
    /\ nearest = <<>>
    /\ path = <<>>
    /\ printed = <<>>
    /\ hops = <<>>
    /\ lines = <<>>
    /\ total_time = 0
    /\ travel_time = <<>>
    /\ error = ""
    /\ osmnx_graph = <<>>
    /\ buses_graph = <<>>
    /\ fetched = NothingFetched
    /\ distance_in_km = 0
    /\ speed_in_km_h = 0
    /\ time_in_minutes = 0
    /\ NoArrival

\* city.get_city_graph: the pickled graph when the file exists, else the
\* graph composed from the street graph and the bus graph, which is pickled.
GetCityGraph ==
    /\ pc = "start"
    /\ IF cityFile # <<>>
       THEN /\ city_graph' = cityFile
            /\ UNCHANGED <<cityFile, osmnx_graph, buses_graph, fetched>>
       ELSE /\ city_graph' = build_city_graph(get_osmnx_graph, get_buses_graph(feed))
            /\ cityFile' = city_graph'
            /\ osmnx_graph' = build_city_graph_g1(get_osmnx_graph)
            /\ buses_graph' = build_city_graph_g2(get_buses_graph(feed))
            /\ fetched' = [fetched EXCEPT !.street = @ + 1, !.buses = @ + 1]
    /\ pc' = "graph"
    /\ UNCHANGED <<feed, start_location, cinema_location, nearest, path, printed,
                   hops, lines, total_time, travel_time, error>>
    /\ UNCHANGED timing
    /\ UNCHANGED clock

\* city2.get_city_graph, the other composer of the repository, when
\* city_graph5.pickle does not exist.
GetCityGraph2 ==
    /\ pc = "start"
    /\ city_graph' = build_city_graph2(get_osmnx_graph, get_buses_graph(feed))
    /\ osmnx_graph' = build_city_graph_g1(get_osmnx_graph)
    /\ buses_graph' = build_city_graph_g2(get_buses_graph(feed))
    /\ fetched' = [fetched EXCEPT !.street = @ + 1, !.buses = @ + 1]
    /\ pc' = "graph2"
    /\ UNCHANGED <<feed, cityFile, start_location, cinema_location, nearest, path,
                   printed, hops, lines, total_time, travel_time, error>>
    /\ UNCHANGED timing
    /\ UNCHANGED clock

\* main, lines 146-154: the address is geocoded.
GetStart ==
    /\ pc = "graph"
    /\ \E result \in Places \cup {<<>>} :
          start_location' = get_lat_long(result)
    /\ pc' = "located"
    /\ UNCHANGED <<feed, cityFile, city_graph, cinema_location, nearest, path, printed,
                   hops, lines, total_time, travel_time, error>>
    /\ UNCHANGED <<osmnx_graph, buses_graph, fetched>>
    /\ UNCHANGED timing
    /\ UNCHANGED clock

\* main, lines 158-164: no projection matches the keyword.
NoProjection ==
    /\ pc = "located"
    /\ pc' = "done"
    /\ UNCHANGED <<feed, cityFile, city_graph, start_location, cinema_location, nearest,
                   path, printed, hops, lines, total_time, travel_time, error>>
    /\ UNCHANGED <<osmnx_graph, buses_graph, fetched>>
    /\ UNCHANGED timing
    /\ UNCHANGED clock

\* main, lines 158-166: the cinema of the earliest projection, and find_path.
FindPath ==
    /\ pc = "located"
    /\ \E cinema \in Places :
        LET buses == get_buses_graph(feed)
            dst == cinema
        IN /\ cinema_location' = cinema
           /\ IF nearest_nodes_raises(buses)
              THEN /\ pc' = "crashed" /\ error' = "ValueError"
                   /\ UNCHANGED <<nearest, path>>
              ELSE IF start_location.kind # "tuple"
              THEN /\ pc' = "crashed" /\ error' = "TypeError"
                   /\ UNCHANGED <<nearest, path>>
              ELSE LET src == <<start_location.latitude, start_location.longitude>>
                   IN \E dst_nearest \in nearest_nodes(buses, dst[2], dst[1]),
                         src_nearest \in nearest_nodes(buses, src[2], src[1]) :
                        /\ nearest' = [src |-> src_nearest, dst |-> dst_nearest]
                        /\ path' \in find_path(buses, src, dst, src_nearest, dst_nearest)
                        /\ pc' = "pathed"
                        /\ UNCHANGED error
    /\ fetched' = [fetched EXCEPT !.buses = @ + 1, !.planning = @ + 1]
    /\ UNCHANGED <<feed, cityFile, city_graph, start_location, printed, hops, lines,
                   total_time, travel_time>>
    /\ UNCHANGED <<osmnx_graph, buses_graph>>
    /\ UNCHANGED timing
    /\ UNCHANGED clock

\* main, lines 168-189: the lines of the path are printed.
PrintPath ==
    /\ pc = "pathed"
    /\ IF \A i \in 1..Len(path) : path[i].type = "stop" => path[i].node \in DOMAIN city_graph.nodes
       THEN /\ printed' = PrintLines(city_graph, path, 1, "")
            /\ pc' = "printed"
            /\ UNCHANGED error
       ELSE /\ pc' = "crashed" /\ error' = "KeyError"
            /\ UNCHANGED printed
    /\ UNCHANGED <<feed, cityFile, city_graph, start_location, cinema_location, nearest,
                   path, hops, lines, total_time, travel_time>>
    /\ UNCHANGED <<osmnx_graph, buses_graph, fetched>>
    /\ UNCHANGED timing
    /\ UNCHANGED clock

\* main, line 195: plot_path(city_graph, path, "path.png").
PlotPath ==
    /\ pc = "printed"
    /\ IF path = <<>>
       THEN \* intersection_paths[0] of an empty list
            /\ pc' = "crashed" /\ error' = "IndexError"
            /\ UNCHANGED <<hops, lines, total_time, travel_time>>
       ELSE IF ~Plottable(city_graph, path)
       THEN /\ pc' = "crashed" /\ error' = "KeyError"
            /\ UNCHANGED <<hops, lines, total_time, travel_time>>
       ELSE /\ hops' = Hops(city_graph, OfType(path, "stop"))
            /\ lines' = Lines(path, hops')
            /\ total_time' = TotalTime(hops', 1)
            /\ \E rendered \in BOOLEAN :
                  travel_time' = IF rendered THEN format_minutes(total_time') ELSE <<>>
            /\ pc' = "plotted"
            /\ UNCHANGED error
    /\ city_graph' = plotted_graph(city_graph)
    /\ fetched' = [fetched EXCEPT !.street = @ + 1, !.planning = @ + 1]
    /\ UNCHANGED <<feed, cityFile, start_location, cinema_location, nearest,
                   path, printed>>
    /\ UNCHANGED <<osmnx_graph, buses_graph>>
    /\ UNCHANGED timing
    /\ UNCHANGED clock

\* datetime.datetime.now().time(), in minutes since midnight.
Clocks == { 12 * 60, 23 * 60 + 30 }

\* The time of the projection main picked, in minutes since midnight.
Showtimes == { 16 * 60, 22 * 60 }

DayMinutes == 1440

OnTime == "Arribaras a temps a la projeccio!"
Late == "No podras arribar a temps."

\* (current_datetime + timedelta(hours, minutes)).time(): the date is dropped.
ArrivalTime(now, hours, minutes) == (now + hours * 60 + minutes) % DayMinutes

\* main, lines 191-217: the travel time is split in hours and minutes, added
\* to the current time, and the time of day of the sum is compared with the
\* time of the projection.
Arrival ==
    /\ pc = "plotted"
    /\ \E now \in Clocks, show \in Showtimes :
          /\ current_time' = now
          /\ IF travel_time = <<>>
             THEN /\ pc' = "crashed" /\ error' = "AttributeError"
                  /\ UNCHANGED <<projection_time, arrival_time, message>>
             ELSE /\ arrival_time' = ArrivalTime(now, travel_time[1], travel_time[2])
                  /\ projection_time' = show
                  /\ message' = IF arrival_time' < projection_time' THEN OnTime ELSE Late
                  /\ pc' = "done"
                  /\ UNCHANGED error
    /\ UNCHANGED <<feed, cityFile, city_graph, start_location, cinema_location, nearest,
                   path, printed, hops, lines, total_time, travel_time>>
    /\ UNCHANGED <<osmnx_graph, buses_graph, fetched>>
    /\ UNCHANGED timing

Next ==
    \/ GetCityGraph
    \/ GetCityGraph2
    \/ GetStart
    \/ NoProjection
    \/ FindPath
    \/ PrintPath
    \/ PlotPath
    \/ Arrival

Spec == Init /\ [][Next]_vars

-----------------------------------------------------------------------------
(* calculate_travel_time on its own *)

\* The variables of main, before main has run.
NoSession ==
    /\ feed = <<>>
    /\ cityFile = <<>>
    /\ city_graph = <<>>
    /\ start_location = <<>>
    /\ cinema_location = <<>>
    /\ nearest = <<>>
    /\ path = <<>>
    /\ printed = <<>>
    /\ hops = <<>>
    /\ lines = <<>>
    /\ total_time = 0
    /\ travel_time = <<>>
    /\ error = ""
    /\ fetched = NothingFetched

session == <<feed, cityFile, city_graph, start_location, cinema_location, nearest, path,
             printed, hops, lines, total_time, travel_time, fetched>>

\* A caller is about to call calculate_travel_time(distance_in_km, speed_in_km_h).
TimeInit ==
    /\ NoSession
    /\ osmnx_graph = <<>>
    /\ buses_graph = <<>>
    /\ pc = "call"
    /\ distance_in_km \in 0..MaxDistance
    /\ speed_in_km_h \in (-MaxSpeed)..MaxSpeed
    /\ time_in_minutes = 0
    /\ NoArrival

\* time_in_hours = distance_in_km / speed_in_km_h raises ZeroDivisionError
\* when the speed is 0; nothing else is tested.
CalculateTravelTime ==
    /\ pc = "call"
    /\ IF speed_in_km_h = 0
       THEN /\ pc' = "crashed" /\ error' = "ZeroDivisionError"
            /\ UNCHANGED time_in_minutes
       ELSE /\ time_in_minutes' = calculate_travel_time(distance_in_km, speed_in_km_h)
            /\ pc' = "returned"
            /\ UNCHANGED error
    /\ UNCHANGED session
    /\ UNCHANGED <<osmnx_graph, buses_graph, distance_in_km, speed_in_km_h>>
    /\ UNCHANGED clock

TimeNext == CalculateTravelTime

TimeSpec == TimeInit /\ [][TimeNext]_vars

-----------------------------------------------------------------------------
(* build_city_graph on its own *)

\* The street graph G with every node identifier lowered by shift: OSM
\* identifiers and the CodAMB of the feed are both plain integers, and
\* nothing keeps the two ranges apart.
Renumber(G, shift) ==
    [nodes |-> [n \in { m - shift : m \in DOMAIN G.nodes } |-> G.nodes[n + shift]],
     order |-> [i \in DOMAIN G.order |-> G.order[i] - shift],
     edges |-> [k \in { <<e[1] - shift, e[2] - shift, e[3]>> : e \in DOMAIN G.edges } |->
                  G.edges[<<k[1] + shift, k[2] + shift, k[3]>>]]]

\* The graphs a caller can pass as g1: the street graph under identifiers
\* that share none, one or all with the stops, and a graph without nodes.
StreetGraphs == { Renumber(get_osmnx_graph, shift) : shift \in 0..NInts } \cup {EmptyGraph}

\* A caller is about to call build_city_graph(osmnx_graph, buses_graph).
ComposeInit ==
    /\ feed \in Feeds
    /\ osmnx_graph \in StreetGraphs
    /\ buses_graph = get_buses_graph(feed)
    /\ pc = "compose"
    /\ cityFile = <<>>
    /\ city_graph = <<>>
    /\ start_location = <<>>
    /\ cinema_location = <<>>
    /\ nearest = <<>>
    /\ path = <<>>
    /\ printed = <<>>
    /\ hops = <<>>
    /\ lines = <<>>
    /\ total_time = 0
    /\ travel_time = <<>>
    /\ error = ""
    /\ fetched = NothingFetched
    /\ distance_in_km = 0
    /\ speed_in_km_h = 0
    /\ time_in_minutes = 0
    /\ NoArrival

\* city.build_city_graph(g1, g2): the nodes are tagged in place, the graphs
\* composed, the result pickled to city_graph.grf and returned.
Compose ==
    /\ pc = "compose"
    /\ city_graph' = build_city_graph(osmnx_graph, buses_graph)
    /\ cityFile' = city_graph'
    /\ osmnx_graph' = build_city_graph_g1(osmnx_graph)
    /\ buses_graph' = build_city_graph_g2(buses_graph)
    /\ pc' = "composed"
    /\ UNCHANGED <<feed, start_location, cinema_location, nearest, path, printed, hops,
                   lines, total_time, travel_time, error, fetched>>
    /\ UNCHANGED timing
    /\ UNCHANGED clock

\* city2.build_city_graph(g1, g2).
Compose2 ==
    /\ pc = "compose"
    /\ city_graph' = build_city_graph2(osmnx_graph, buses_graph)
    /\ osmnx_graph' = build_city_graph_g1(osmnx_graph)
    /\ buses_graph' = build_city_graph_g2(buses_graph)
    /\ pc' = "composed2"
    /\ UNCHANGED <<feed, cityFile, start_location, cinema_location, nearest, path, printed,
                   hops, lines, total_time, travel_time, error, fetched>>
    /\ UNCHANGED timing
    /\ UNCHANGED clock

ComposeNext ==
    \/ Compose
    \/ Compose2

ComposeSpec == ComposeInit /\ [][ComposeNext]_vars

-----------------------------------------------------------------------------
(* get_city_graph over several runs of the program *)

\* The feeds the AMB can publish after linies: the last line of the feed is
\* published anew, with the same stops or with others.
Republished(linies) ==
    { f \in Feeds : \A k \in 1..(Len(linies) - 1) : f[k] = linies[k] }

\* The program is started again: city_graph.grf is what the runs before left,
\* the feed is what the AMB publishes now, nothing else is kept.
NewRun ==
    /\ pc = "graph"
    /\ pc' = "start"
    /\ feed' \in Republished(feed)
    /\ city_graph' = <<>>
    /\ osmnx_graph' = <<>>
    /\ buses_graph' = <<>>
    /\ fetched' = NothingFetched
    /\ UNCHANGED <<cityFile, start_location, cinema_location, nearest, path, printed, hops,
                   lines, total_time, travel_time, error>>
    /\ UNCHANGED timing
    /\ UNCHANGED clock

CacheNext ==
    \/ GetCityGraph
    \/ NewRun

CacheSpec == Init /\ [][CacheNext]_vars

-----------------------------------------------------------------------------
(* The arrival check of main on its own *)

MaxMinutes == 150

\* plot_path has returned: total_time is a whole number of minutes up to
\* MaxMinutes, travel_time its format_minutes, or None when the rendering failed.
ArrivalInit ==
    /\ feed = <<>>
    /\ \E m \in 0..MaxMinutes : total_time = 60 * m
    /\ travel_time \in {format_minutes(total_time), <<>>}
    /\ pc = "plotted"
    /\ cityFile = <<>>
    /\ city_graph = <<>>
    /\ start_location = <<>>
    /\ cinema_location = <<>>
    /\ nearest = <<>>
    /\ path = <<>>
    /\ printed = <<>>
    /\ hops = <<>>
    /\ lines = <<>>
    /\ error = ""
    /\ osmnx_graph = <<>>
    /\ buses_graph = <<>>
    /\ fetched = NothingFetched
    /\ distance_in_km = 0
    /\ speed_in_km_h = 0
    /\ time_in_minutes = 0
    /\ NoArrival

ArrivalNext == Arrival

ArrivalSpec == ArrivalInit /\ [][ArrivalNext]_vars

-----------------------------------------------------------------------------
(* What the claims speak of *)

\* The CostModel of the specification: the speed of a mode in km/h and
\* time = length_meters / (speed_kmh * 1000 / 3600), in seconds.
SpeedKmh(mode) == IF mode = "Bus" THEN 20 ELSE 5

time_seconds(length, mode) == (length * 3600) \div (SpeedKmh(mode) * 1000)

\* The mode of an edge of the city graph: Bus between two stops, Walk
\* between two intersections, Transfer between a stop and an intersection.
EdgeMode(g, k) ==
    IF g.nodes[k[1]].type = "stop" /\ g.nodes[k[2]].type = "stop" THEN "Bus"
    ELSE IF g.nodes[k[1]].type = "intersection" /\ g.nodes[k[2]].type = "intersection"
         THEN "Walk"
         ELSE "Transfer"

\* The physical length of an edge: 'distance' on a bus edge, 'length' on the others.
EdgeLength(data) == IF "distance" \in DOMAIN data THEN data.distance ELSE data.length

EdgesBetween(g, u, v) == { k \in DOMAIN g.edges : {k[1], k[2]} = {u, v} }

\* The least CostModel time of an edge of the city graph between u and v.
EdgeTime(g, u, v) ==
    Min({ time_seconds(EdgeLength(g.edges[k]), EdgeMode(g, k)) : k \in EdgesBetween(g, u, v) })

\* The total CostModel times of the simple paths of the city graph from u to target.
RECURSIVE PathTimes(_, _, _, _)
PathTimes(g, u, target, visited) ==
    IF u = target THEN {0}
    ELSE UNION { { EdgeTime(g, u, w) + t : t \in PathTimes(g, w, target, visited \cup {w}) } :
                   w \in { n \in DOMAIN g.nodes \ visited : EdgesBetween(g, u, n) # {} } }

\* The least total CostModel time of a path of the city graph from source to target.
LeastTime(g, source, target) == Min(PathTimes(g, source, target, {source}))

\* The stops of a path of find_path, in order.
StopsOf(p) == [i \in 1..Len(OfType(p, "stop")) |-> OfType(p, "stop")[i].node]

RECURSIVE NodesTime(_, _, _)
NodesTime(g, nodes, i) ==
    IF i >= Len(nodes) THEN 0
    ELSE EdgeTime(g, nodes[i], nodes[i + 1]) + NodesTime(g, nodes, i + 1)

\* The nodes of G that a walk along its edges reaches from the nodes in S.
RECURSIVE ReachedFrom(_, _)
ReachedFrom(G, S) ==
    LET more == S \cup { u \in DOMAIN G.nodes : \E v \in S : {u, v} \in DOMAIN G.edges }
    IN IF more = S THEN S ELSE ReachedFrom(G, more)

\* find_path has returned.
Searched == nearest # <<>>

\* plot_path has timed the path and drawn its lines.
Timed == lines # <<>>

\* The key (mode, line when the mode is Bus) plot_path gives a hop.
HopKey(hop) ==
    IF hop.color = "red" THEN <<"Bus", city_graph.nodes[hop.from].line>> ELSE <<"Walk">>

\* The number of maximal runs of equal keys among the hops.
KeyRuns(hs) ==
    IF Len(hs) = 0 THEN 0
    ELSE 1 + Cardinality({ i \in 1..(Len(hs) - 1) : HopKey(hs[i]) # HopKey(hs[i + 1]) })

\* The node sequences of the legs joined, a shared end kept once.
JoinLegs(ls) == <<ls[1].from>> \o [i \in 1..Len(ls) |-> ls[i].to]

\* The lines of the feed that run between the stops u and v.
EdgeLines(linies, u, v) ==
    { linies[k].Nom : k \in { j \in DOMAIN linies :
        \E i \in 1..(Len(linies[j].Parades) - 1) :
            {linies[j].Parades[i].CodAMB, linies[j].Parades[i + 1].CodAMB} = {u, v} } }

-----------------------------------------------------------------------------
(* The claims *)

\* C1: after graph composition of a non-empty street graph and a non-empty
\* bus graph, every node of kind 'stop' of the city graph has at least one
\* edge to a node of kind 'intersection'.
C1_EveryStopHasTransfer ==
    (city_graph # <<>> /\ DOMAIN get_buses_graph(feed).nodes # {}) =>
        \A n \in DOMAIN city_graph.nodes :
            city_graph.nodes[n].type = "stop" =>
                \E k \in DOMAIN city_graph.edges :
                    /\ n \in {k[1], k[2]}
                    /\ \E m \in {k[1], k[2]} : city_graph.nodes[m].type = "intersection"

\* C2: the path find_path returns has the least total travel time (length
\* over the speed of the mode, edge by edge) among the paths of the city
\* graph between the two snapped nodes.
C2_PathHasLeastTime ==
    (Searched /\ path # <<>> /\ pc = "pathed") =>
        NodesTime(city_graph, StopsOf(path), 1)
            = LeastTime(city_graph, nearest.src, nearest.dst)

\* C3: find_path returns the empty path exactly when the node snapped from
\* dst cannot be reached from the node snapped from src in the graph it
\* searches; otherwise it returns a path along edges of that graph from the
\* one to the other.
C3_NoPathIffUnreachable ==
    Searched =>
        LET G == get_buses_graph(feed)
            nodes == StopsOf(path)
        IN /\ (path = <<>>) <=> (nearest.dst \notin ReachedFrom(G, {nearest.src}))
           /\ path # <<>> =>
                /\ Len(nodes) >= 1
                /\ nodes[1] = nearest.src
                /\ Last(nodes) = nearest.dst
                /\ \A i \in 1..(Len(nodes) - 1) : {nodes[i], nodes[i + 1]} \in DOMAIN G.edges

C3_Witness ==
    /\ Searched
    /\ path = <<>>
    /\ pc = "pathed"

\* C4: a request for which find_path returns the empty path is finished by
\* main and plot_path without an unhandled exception.
C4_NoPathIsHandled ==
    (Searched /\ path = <<>>) => pc # "crashed"

\* C5: the legs of the itinerary are the maximal runs of path edges with one
\* key (mode, line when the mode is Bus): the key plot_path gives a hop is
\* the key of the edge it travels (Bus, a line that runs between the two
\* stops), and main announces as many legs as the hops have runs of equal keys.
C5_LegsAreKeyRuns ==
    (Timed /\ Len(hops) >= 1) =>
        /\ \A i \in 1..Len(hops) :
              /\ HopKey(hops[i])[1] = "Bus"
              /\ HopKey(hops[i])[2] \in EdgeLines(feed, hops[i].from, hops[i].to)
        /\ Len(printed) = KeyRuns(hops)

\* C6: the total duration is the sum, over the edges of the path, of the
\* CostModel time of the edge at the speed of its own mode.
C6_TotalIsSumOfEdgeTimes ==
    Timed => total_time = NodesTime(city_graph, StopsOf(path), 1)

C9_SameNode ==
    (Searched /\ nearest.src = nearest.dst) =>
        /\ StopsOf(path) = <<nearest.src>>
        /\ Timed => (hops = <<>> /\ total_time = 0)
        /\ (Timed /\ travel_time # <<>>) => travel_time = <<0, 0>>

C9_Witness ==
    /\ Searched
    /\ nearest.src = nearest.dst
    /\ Timed
    /\ travel_time = <<0, 0>>
    /\ pc = "done"

\* C10: every time used for routing and for the duration of the itinerary
\* is length_meters / (speed_kmh * 1000 / 3600) seconds for the length and
\* the mode of the edge, with Walk 5, Bus 20 and Transfer 5 km/h.
C10_TimesAreCostModel ==
    /\ Searched =>
          \A e \in DOMAIN get_buses_graph(feed).edges :
              EdgeWeight(get_buses_graph(feed).edges[e], PathWeight)
                  = time_seconds(get_buses_graph(feed).edges[e].distance, "Bus")
    /\ Timed =>
          \A i \in 1..Len(hops) :
              hops[i].time = EdgeTime(city_graph, hops[i].from, hops[i].to)

\* C11: calculate_travel_time never divides by zero and never returns a
\* negative time: a speed <= 0 is rejected with InvalidSpeed before any time
\* is computed, and a length of 0 yields a time of 0.
C11_SpeedIsValidated ==
    /\ (pc \in {"returned", "crashed"} /\ speed_in_km_h <= 0) =>
            (pc = "crashed" /\ error = "InvalidSpeed")
    /\ pc = "returned" => time_in_minutes >= 0
    /\ (pc = "returned" /\ distance_in_km = 0) => time_in_minutes = 0

\* The node the specification snaps a coordinate to: among the nodes of g at
\* the least great-circle distance from (latitude, longitude), the smallest.
Snapped(g, latitude, longitude) ==
    Min({ n \in DOMAIN g.nodes :
            \A m \in DOMAIN g.nodes :
                GreatCircle(latitude, longitude, g.nodes[n].y, g.nodes[n].x)
                    <= GreatCircle(latitude, longitude, g.nodes[m].y, g.nodes[m].x) })

\* C12: snapping maps a coordinate to the node of the city graph
\* (intersection or stop) at the least great-circle distance from it, the
\* smallest node identifier among equally near nodes.
C12_SnapsToNearestNode ==
    Searched =>
        /\ nearest.src = Snapped(city_graph, start_location.latitude, start_location.longitude)
        /\ nearest.dst = Snapped(city_graph, cinema_location[1], cinema_location[2])

C14_InputsNotMutated ==
    osmnx_graph # <<>> =>
        /\ osmnx_graph = get_osmnx_graph
        /\ buses_graph = get_buses_graph(feed)

\* build_city_graph has returned.
Composed == pc \in {"composed", "composed2"}

\* C15: when a node identifier occurs in both the street graph and the bus
\* graph, composition fails with ConflictingNodeId and produces no city
\* graph; it never merges the two nodes into one.
C15_CollisionIsRejected ==
    (Composed /\ DOMAIN osmnx_graph.nodes \cap DOMAIN buses_graph.nodes # {}) =>
        /\ error = "ConflictingNodeId"
        /\ city_graph = <<>>

\* C16: composition fails with EmptyInputGraph when the street graph or the
\* bus graph has no nodes, and then no city graph is returned or written to
\* the cache.
C16_EmptyInputIsRejected ==
    (Composed /\ (DOMAIN osmnx_graph.nodes = {} \/ DOMAIN buses_graph.nodes = {})) =>
        /\ error = "EmptyInputGraph"
        /\ city_graph = <<>>
        /\ cityFile = <<>>

\* C17: the city graph is read-only during planning: no step of a route
\* request (find_path, the printing of the path, plot_path), successful or
\* failed, changes the nodes, edges or attributes that composition returned.
C17_GraphIsReadOnly ==
    [][city_graph # <<>> => city_graph' = city_graph]_vars

C17_Witness ==
    /\ city_graph # <<>>
    /\ fetched.planning = 2
    /\ pc \in {"done", "crashed"}
    /\ Len(hops) >= 1

\* The intersection of g1 the specification joins a stop to: the first in
\* g1's node order among those at the least haversine distance from the stop.
NearestIntersection(g1, data) ==
    LET d(n) == haversine(<<data.y, data.x>>, <<g1.nodes[n].y, g1.nodes[n].x>>)
        near == { n \in DOMAIN g1.nodes : \A m \in DOMAIN g1.nodes : d(n) <= d(m) }
    IN CHOOSE n \in near : \A m \in near : Position(g1.order, n) <= Position(g1.order, m)

\* C18: for each stop, the transfer edge that city2's composition creates
\* joins the stop to the intersection at the least haversine distance
\* (the first encountered on ties), exists in both directions and has that
\* distance as its length.
C18_TransferToNearest ==
    pc = "graph2" =>
        \A stop \in DOMAIN get_buses_graph(feed).nodes :
            LET data == get_buses_graph(feed).nodes[stop]
                to == NearestIntersection(get_osmnx_graph, data)
                d == haversine(<<data.y, data.x>>,
                               <<get_osmnx_graph.nodes[to].y, get_osmnx_graph.nodes[to].x>>)
            IN /\ transfer_distance(get_osmnx_graph, data, to) = d
               /\ \E k \in DOMAIN city_graph.edges :
                     k[1] = stop /\ k[2] = to /\ city_graph.edges[k].length = d
               /\ \E k \in DOMAIN city_graph.edges :
                     k[1] = to /\ k[2] = stop /\ city_graph.edges[k].length = d

\* C19: the travel time is monotonically increasing in the length for a
\* fixed speed and monotonically decreasing in the speed for a fixed
\* length, the speed being that of a mode (positive): a shorter length
\* never takes longer than the call made, a higher speed never takes longer.
C19_TimeIsMonotonic ==
    (pc = "returned" /\ speed_in_km_h > 0) =>
        /\ \A d \in 0..MaxDistance :
              /\ d <= distance_in_km =>
                    calculate_travel_time(d, speed_in_km_h) <= time_in_minutes
              /\ d >= distance_in_km =>
                    calculate_travel_time(d, speed_in_km_h) >= time_in_minutes
        /\ \A v \in 1..MaxSpeed :
              /\ v >= speed_in_km_h =>
                    calculate_travel_time(distance_in_km, v) <= time_in_minutes
              /\ v <= speed_in_km_h =>
                    calculate_travel_time(distance_in_km, v) >= time_in_minutes

C19_Witness ==
    /\ pc = "returned"
    /\ speed_in_km_h = walking_speed
    /\ distance_in_km = MaxDistance
    /\ time_in_minutes > calculate_travel_time(distance_in_km, bus_speed)
    /\ time_in_minutes > calculate_travel_time(1, walking_speed)

\* C20: within one session the street graph and the bus graph are obtained
\* at most once each, before planning; find_path and plot_path obtain
\* neither.
C20_SourcesObtainedOnce ==
    /\ fetched.street <= 1
    /\ fetched.buses <= 1
    /\ fetched.planning = 0

\* C21: the cache never serves a stale composed graph: in any sequence of
\* runs, the graph get_city_graph returns is the one composed from the
\* source data as they are in that run.
C21_CacheIsNeverStale ==
    pc = "graph" =>
        city_graph = build_city_graph(get_osmnx_graph, get_buses_graph(feed))

\* C22: when the geocoding of the start address fails, main asks for another
\* address until one resolves: find_path is never called with a start
\* location that is None or holds None.
C22_StartIsResolved ==
    cinema_location # <<>> => start_location.kind = "tuple"
\* The lines of the feed that serve stop u.
LinesAt(linies, u) ==
    { linies[k].Nom : k \in { j \in DOMAIN linies :
        \E i \in 1..Len(linies[j].Parades) : linies[j].Parades[i].CodAMB = u } }

\* C23: every hop that travels an edge of the bus graph (two stops that are
\* consecutive on one line) is coloured and timed as a bus hop at 20 km/h,
\* also when one of its stops is served by other lines; only a hop between
\* stops that share no line is timed as walking.
C23_BusEdgesAreBusHops ==
    Timed =>
        \A i \in 1..Len(hops) :
            /\ EdgeLines(feed, hops[i].from, hops[i].to) # {} =>
                  /\ hops[i].color = "red"
                  /\ hops[i].time = calculate_travel_time(hops[i].distance, bus_speed)
            /\ hops[i].color = "blue" =>
                  LinesAt(feed, hops[i].from) \cap LinesAt(feed, hops[i].to) = {}

\* The walking time between the point (latitude, longitude) and stop n of g.
AccessWalk(g, latitude, longitude, n) ==
    calculate_travel_time(GreatCircle(latitude, longitude, g.nodes[n].y, g.nodes[n].x),
                          walking_speed)

\* C24: the total travel time of plot_path covers the whole trip: the walk
\* from the source point to the first stop and the walk from the last stop
\* to the destination point each add their walking time to the time of the
\* stop-to-stop hops.
C24_TotalCoversAccessWalks ==
    Timed =>
        total_time = TotalTime(hops, 1)
            + AccessWalk(city_graph, start_location.latitude, start_location.longitude,
                         StopsOf(path)[1])
            + AccessWalk(city_graph, cinema_location[1], cinema_location[2],
                         Last(StopsOf(path)))

\* The minutes a travel time of (hours, minutes) lasts.
TravelMinutes(t) == t[1] * 60 + t[2]

\* C25: main reports that the user arrives on time if and only if the current
\* time plus the travel time is earlier than the showtime on the same day; an
\* arrival that falls past midnight is never reported as on time.
C25_OnTimeIffBeforeShowtime ==
    message # "" =>
        /\ message = OnTime <=> current_time + TravelMinutes(travel_time) < projection_time
        /\ current_time + TravelMinutes(travel_time) >= DayMinutes => message = Late

====
